---------------------------- MODULE Spec2Model ----------------------------
(***************************************************************************)
(* Streak pipeline of src/data_manipulator.py:                             *)
(*   DataManipulator.calculate_streaks_and_details   (the streak scanner)  *)
(*   DataManipulator.process_files                   (outputs, sorting)    *)
(*   DataManipulator.create_combined_frequencies_dataframe (aggregator)    *)
(* and the resume logic of src/stockfish_accuracies_calculator.py (main,   *)
(* load_processed_ids, load_last_processed_game).                          *)
(*                                                                         *)
(* Streak lengths are Python numbers that are always multiples of 0.5.     *)
(* They are represented here as an integer count of halves: 0.5 is Half,   *)
(* 1 is One = 2 halves, a length of 2.5 is the integer 5.                  *)
(***************************************************************************)
EXTENDS Integers, Sequences, FiniteSets, TLC

(***************************************************************************)
(* Bounds of the model.                                                    *)
(***************************************************************************)
MaxLen == 5
MaxId == 5
MaxAnyLen == 3
MaxAnyId == 2
MaxRunId == 6
MaxFileLen == 3
MaxFileId == 3
MaxMissLen == 3
MaxPlayerLen == 3
MaxPlayerId == 3
MaxGames == 11
MaxRuns == 2
MaxUnknown == 1

(***************************************************************************)
(* Numbers of the program, in halves.                                      *)
(***************************************************************************)
\* pending_draw = 0.5                                   (line 303)
Half == 1
\* the 1 of "current_streak = 1", "+= 1 + pending_draw", "> 1"
One == Half + Half
\* np.arange(2, ...): the first grid value              (line 346)
GridStart == One + One
\* Python's None for streak_start_id and last_id; ids are positive
None == 0

\* self.winner_names[player_key] (app.py lines 67-71), one tracked player
player_name == "MagnusCarlsen"
\* the values the Winner column can hold: the tracked player's literal,
\* 'Draw', and any other text (the opponent's name, or a missing value)
Winners == {player_name, "Draw", "Opponent"}
\* (Opponent_ELO, ELO Difference In Terms of Player) pairs of a row
Ratings == {<<2800, -50>>, <<2700, 50>>}

\* one row of the dataframe handed to the scanner
Row(id, w, r) ==
    [ID |-> id, Winner |-> w, Opponent_ELO |-> r[1], ELO_Difference |-> r[2]]

\* the table with the given ID column; f gives each row's Winner and ratings
Table(ids, f) == [i \in 1..Len(ids) |-> Row(ids[i], f[i][1], f[i][2])]

\* the elements of a set of ids in ascending order
Ascending(S) ==
    [i \in 1..Cardinality(S) |->
        CHOOSE x \in S : Cardinality({y \in S : y < x}) = i - 1]

\* df.sort_values(by='ID') of a file whose ids are unique (line 375): at most
\* MaxLen rows with ids in 1..MaxId, in strictly ascending ID order
IsSortedTable(t) ==
    \E S \in SUBSET (1..MaxId) :
        /\ Cardinality(S) <= MaxLen
        /\ \E f \in [1..Cardinality(S) -> Winners \X Ratings] :
              t = Table(Ascending(S), f)

\* any table of at most MaxAnyLen rows with ids in 1..MaxAnyId, in any
\* order, ids possibly repeated
IsAnyTable(t) ==
    \E n \in 0..MaxAnyLen :
        \E ids \in [1..n -> 1..MaxAnyId] :
            \E f \in [1..n -> Winners \X Ratings] : t = Table(ids, f)

\* a sorted table whose rows all have the same ratings: every set of ids in
\* 1..MaxRunId and every Winner column
IsOutcomeTable(t) ==
    \E S \in SUBSET (1..MaxRunId) :
        \E w \in [1..Cardinality(S) -> Winners] :
            t = Table(Ascending(S),
                      [i \in 1..Cardinality(S) |-> <<w[i], <<2800, -50>>>>])

\* pd.read_csv(input_file) (line 374): the rows of a player's filtered file in
\* the order of the file, at most MaxFileLen rows, ids unique in 1..MaxFileId
IsFileTable(t) ==
    \E n \in 0..MaxFileLen :
        \E ids \in [1..n -> 1..MaxFileId] :
            /\ \A i \in 1..n : \A j \in 1..n : ids[i] = ids[j] => i = j
            /\ \E f \in [1..n -> Winners \X Ratings] : t = Table(ids, f)

\* an empty cell of the file is read as NaN: in the Winner column (a text
\* column) and in the rating columns (numbers; the ratings of the model are
\* positive and the differences are not -1)
NaNText == "NaN"
NaNNumber == None - 1

\* a sorted table with ids 1..n, n <= MaxMissLen, whose cells for the Winner
\* and the ratings can be empty
IsTableWithMissing(t) ==
    \E n \in 0..MaxMissLen :
        \E f \in [1..n -> (Winners \cup {NaNText})
                            \X (Ratings \cup {<<NaNNumber, NaNNumber>>})] :
            t = Table([i \in 1..n |-> i], f)

\* the filtered file of one player of the loop of process_files (line 374):
\* at most MaxPlayerLen rows in any order, ids unique in 1..MaxPlayerId, the
\* same ratings in every row. In each file player_name stands for the literal
\* that winner_names gives for the file's player.
IsPlayerFile(t) ==
    \E n \in 0..MaxPlayerLen :
        \E ids \in [1..n -> 1..MaxPlayerId] :
            /\ \A i \in 1..n : \A j \in 1..n : ids[i] = ids[j] => i = j
            /\ \E w \in [1..n -> Winners] :
                  t = Table(ids, [i \in 1..n |-> <<w[i], <<2800, -50>>>>])

\* the players of dataframe_files_filtered_by_blitz (app.py lines 43-47)
NumPlayers == 3

VARIABLES
    df,               \* the table given to calculate_streaks_and_details
    pc,               \* position of the program
    idx,              \* position of the next row of df.iterrows()
    streaks,          \* emitted streak lengths (halves)
    details,          \* emitted detail entries
    current_streak,   \* length of the open streak (halves)
    streak_start_id,  \* id of the first win of the open streak, or None
    streak_details,   \* detail entries of the open streak
    last_id,          \* id of the previous row, or None
    pending_draw,     \* 0 or Half
    results,          \* return values of the finished calls, in call order
    unordered_csv,    \* processed_streaks_unordered files written so far: the
                      \* content of one file per player, in iteration order
    details_csv,      \* processed_details files
    ordered_csv,      \* processed_streaks_ordered files
    frequencies_csv,  \* {name}_frequencies.csv files
    \* src/stockfish_accuracies_calculator.py
    pgn_file,             \* input_pgn: the ID header of each game, in file order
    output_accuracy_csv,  \* the ID cells of the rows of the accuracy file
    checkpoint_file,      \* <<>> (no file) or <<the text of the file>>
    processed_ids,        \* local of main
    last_processed_game,  \* local of main: <<>> (None) or <<text>>
    game_index,           \* local of main
    main_pc,              \* position of the accuracy script
    runs                  \* number of times main was started

scanner == <<idx, streaks, details, current_streak, streak_start_id,
             streak_details, last_id, pending_draw>>
files == <<unordered_csv, details_csv, ordered_csv, frequencies_csv>>
accuracy == <<pgn_file, output_accuracy_csv, checkpoint_file, processed_ids,
              last_processed_game, game_index, main_pc, runs>>
vars == <<df, pc, scanner, results, files, accuracy>>

(***************************************************************************)
(* Helpers of the scanner.                                                 *)
(***************************************************************************)
\* a continuity test on the order of the ids instead of their adjacency
is_sequential_ascending(last, cur) == (last = None) \/ (cur > last)

\* line 271
is_sequential(last, cur) == (last = None) \/ (cur = last + 1)

\* a streak of length 1 passes the test
ExceedsOneOrEqual(cs) == cs >= One

\* the test "current_streak > 1" of lines 276, 314 and 325
ExceedsOne(cs) == cs > One

\* the dictionary built at lines 282-286 and 304-308 from the row itself
RowDetail(row) ==
    [ID |-> row.ID, Opponent_ELO |-> row.Opponent_ELO,
     ELO_Difference |-> row.ELO_Difference]

\* the end of the range is included
RangeInclusive(a, b) == [i \in 1..(IF b >= a THEN b - a + 1 ELSE 0) |-> a + i - 1]

\* range(a, b) of Python as a sequence: a, a+1, ..., b-1
Range(a, b) == [i \in 1..(IF b > a THEN b - a ELSE 0) |-> a + i - 1]

\* positions of the rows selected by df['ID'] == id
Matches(t, id) == {i \in 1..Len(t) : t[i].ID = id}

Min(S) == CHOOSE x \in S : \A y \in S : x <= y
Max(S) == CHOOSE x \in S : \A y \in S : x >= y

\* df.loc[df['ID'] == id, col].values[0]: the first matching row (lines 294, 296)
LookupDetail(t, id) ==
    LET r == t[Min(Matches(t, id))]
    IN  [ID |-> id, Opponent_ELO |-> r.Opponent_ELO,
         ELO_Difference |-> r.ELO_Difference]

\* the details are extended outside the test of the length
EmitDetailsAlways(ds, cs, sd) == ds \o sd

\* the entries of the emitted streak are put before the earlier ones
EmitDetailsFirst(ds, cs, sd) == IF ExceedsOne(cs) THEN sd \o ds ELSE ds

\* lines 276-278, 314-316, 325-327: emit the open streak if it exceeds 1
EmitStreaks(ss, cs) == IF ExceedsOne(cs) THEN Append(ss, cs) ELSE ss
EmitDetails(ds, cs, sd) == IF ExceedsOne(cs) THEN ds \o sd ELSE ds

(***************************************************************************)
(* calculate_streaks_and_details                                           *)
(***************************************************************************)
\* the output lists outlive the call (as attributes or default arguments do)
InitLocalsKeepOutputs ==
    /\ idx' = 1
    /\ current_streak' = 0
    /\ streak_start_id' = None
    /\ streak_details' = <<>>
    /\ last_id' = None
    /\ pending_draw' = 0
    /\ UNCHANGED <<streaks, details>>

\* lines 254-260: the locals of a call
InitLocals ==
    /\ idx' = 1
    /\ streaks' = <<>>
    /\ details' = <<>>
    /\ current_streak' = 0
    /\ streak_start_id' = None
    /\ streak_details' = <<>>
    /\ last_id' = None
    /\ pending_draw' = 0

Call ==
    /\ pc = "call"
    /\ InitLocals
    /\ pc' = "loop"
    /\ UNCHANGED <<df, results, files, accuracy>>

\* line 266-268, 322: the loop takes the next row and ends by recording its id
AtRow == pc = "loop" /\ idx <= Len(df)

Advance ==
    /\ last_id' = df[idx].ID
    /\ idx' = idx + 1
    /\ UNCHANGED <<df, pc, results, files, accuracy>>

\* the new streak's entry is appended to the old streak's entries
WinNewStreakKeepsDetails ==
    /\ AtRow
    /\ df[idx].Winner = player_name
    /\ streak_start_id = None \/ ~is_sequential(last_id, df[idx].ID)
    /\ streaks' = EmitStreaks(streaks, current_streak)
    /\ details' = EmitDetails(details, current_streak, streak_details)
    /\ current_streak' = One
    /\ streak_start_id' = df[idx].ID
    /\ streak_details' = Append(streak_details, RowDetail(df[idx]))
    /\ pending_draw' = 0
    /\ Advance

\* the pending draw of the old streak is left for the new streak
WinNewStreakKeepsPending ==
    /\ AtRow
    /\ df[idx].Winner = player_name
    /\ streak_start_id = None \/ ~is_sequential(last_id, df[idx].ID)
    /\ streaks' = EmitStreaks(streaks, current_streak)
    /\ details' = EmitDetails(details, current_streak, streak_details)
    /\ current_streak' = One
    /\ streak_start_id' = df[idx].ID
    /\ streak_details' = <<RowDetail(df[idx])>>
    /\ UNCHANGED pending_draw
    /\ Advance

\* lines 273-287: a win that starts a new streak
WinNewStreak ==
    /\ AtRow
    /\ df[idx].Winner = player_name
    /\ streak_start_id = None \/ ~is_sequential(last_id, df[idx].ID)
    /\ streaks' = EmitStreaks(streaks, current_streak)
    /\ details' = EmitDetails(details, current_streak, streak_details)
    /\ current_streak' = One
    /\ streak_start_id' = df[idx].ID
    /\ streak_details' = <<RowDetail(df[idx])>>
    /\ pending_draw' = 0
    /\ Advance

\* the pending draw is not added
ContinuedLengthIgnoresDraw(cs, pd) == cs + One

\* a confirmed draw counts as a full game
ContinuedLengthFullDraw(cs, pd) == cs + One + pd + pd

\* line 290
ContinuedLength(cs, pd) == cs + One + pd

\* the range starts at last_id, one id early
ContinuationIdsFromLast(last, cur) == Range(last, cur + 1)

\* lines 291-298: the entries appended by a continuing win
ContinuationIds(last, cur) == Range(last + 1, cur + 1)

\* lines 288-299: a win that continues the open streak; a lookup of an id
\* that is in no row raises IndexError (.values[0] of an empty selection)
WinContinuation ==
    /\ AtRow
    /\ df[idx].Winner = player_name
    /\ ~(streak_start_id = None \/ ~is_sequential(last_id, df[idx].ID))
    /\ LET ids == ContinuationIds(last_id, df[idx].ID)
       IN  IF \A k \in 1..Len(ids) : Matches(df, ids[k]) # {}
           THEN /\ current_streak' = ContinuedLength(current_streak, pending_draw)
                /\ streak_details' = streak_details \o
                       [k \in 1..Len(ids) |-> LookupDetail(df, ids[k])]
                /\ pending_draw' = 0
                /\ UNCHANGED <<streaks, details, streak_start_id>>
                /\ Advance
           ELSE /\ pc' = "IndexError"
                /\ current_streak' = ContinuedLength(current_streak, pending_draw)
                /\ UNCHANGED <<df, idx, streaks, details, streak_start_id,
                               streak_details, last_id, pending_draw,
                               results, files, accuracy>>

\* the draw branch does not test is_sequential
DrawInStreakAnyId ==
    /\ AtRow
    /\ df[idx].Winner # player_name
    /\ df[idx].Winner = "Draw"
    /\ streak_start_id # None
    /\ pending_draw' = Half
    /\ streak_details' = Append(streak_details, RowDetail(df[idx]))
    /\ UNCHANGED <<streaks, details, current_streak, streak_start_id>>
    /\ Advance

\* the draw's entry is not recorded
DrawInStreakNoDetail ==
    /\ AtRow
    /\ df[idx].Winner # player_name
    /\ df[idx].Winner = "Draw" /\ is_sequential(last_id, df[idx].ID)
    /\ streak_start_id # None
    /\ pending_draw' = Half
    /\ UNCHANGED <<streaks, details, current_streak, streak_start_id,
                   streak_details>>
    /\ Advance

\* the draw's weight is added to the length at the draw itself
DrawInStreakCountsNow ==
    /\ AtRow
    /\ df[idx].Winner # player_name
    /\ df[idx].Winner = "Draw" /\ is_sequential(last_id, df[idx].ID)
    /\ streak_start_id # None
    /\ pending_draw' = Half
    /\ current_streak' = current_streak + Half
    /\ streak_details' = Append(streak_details, RowDetail(df[idx]))
    /\ UNCHANGED <<streaks, details, streak_start_id>>
    /\ Advance

\* every draw of a run of draws adds its own 0.5 to the pending weight
DrawInStreakAccumulates ==
    /\ AtRow
    /\ df[idx].Winner # player_name
    /\ df[idx].Winner = "Draw" /\ is_sequential(last_id, df[idx].ID)
    /\ streak_start_id # None
    /\ pending_draw' = pending_draw + Half
    /\ streak_details' = Append(streak_details, RowDetail(df[idx]))
    /\ UNCHANGED <<streaks, details, current_streak, streak_start_id>>
    /\ Advance

\* lines 300-308: a sequential draw while a streak is open
DrawInStreak ==
    /\ AtRow
    /\ df[idx].Winner # player_name
    /\ df[idx].Winner = "Draw" /\ is_sequential(last_id, df[idx].ID)
    /\ streak_start_id # None
    /\ pending_draw' = Half
    /\ streak_details' = Append(streak_details, RowDetail(df[idx]))
    /\ UNCHANGED <<streaks, details, current_streak, streak_start_id>>
    /\ Advance

\* a draw with no streak open leaves a pending draw
DrawNoStreakPending ==
    /\ AtRow
    /\ df[idx].Winner # player_name
    /\ df[idx].Winner = "Draw" /\ is_sequential(last_id, df[idx].ID)
    /\ streak_start_id = None
    /\ pending_draw' = Half
    /\ UNCHANGED <<streaks, details, current_streak, streak_start_id,
                   streak_details>>
    /\ Advance

\* lines 300, 309-311: a sequential draw with no streak open
DrawNoStreak ==
    /\ AtRow
    /\ df[idx].Winner # player_name
    /\ df[idx].Winner = "Draw" /\ is_sequential(last_id, df[idx].ID)
    /\ streak_start_id = None
    /\ pending_draw' = 0
    /\ UNCHANGED <<streaks, details, current_streak, streak_start_id,
                   streak_details>>
    /\ Advance

\* the pending draw is added to the length of the streak that a loss closes
EndOfStreakCountsPending ==
    /\ AtRow
    /\ df[idx].Winner # player_name
    /\ ~(df[idx].Winner = "Draw" /\ is_sequential(last_id, df[idx].ID))
    /\ streaks' = EmitStreaks(streaks, current_streak + pending_draw)
    /\ details' = EmitDetails(details, current_streak, streak_details)
    /\ current_streak' = 0
    /\ streak_start_id' = None
    /\ streak_details' = <<>>
    /\ pending_draw' = 0
    /\ Advance

\* the entries of the closed streak are not cleared
EndOfStreakKeepsEntries ==
    /\ AtRow
    /\ df[idx].Winner # player_name
    /\ ~(df[idx].Winner = "Draw" /\ is_sequential(last_id, df[idx].ID))
    /\ streaks' = EmitStreaks(streaks, current_streak)
    /\ details' = EmitDetails(details, current_streak, streak_details)
    /\ current_streak' = 0
    /\ streak_start_id' = None
    /\ UNCHANGED streak_details
    /\ pending_draw' = 0
    /\ Advance

\* lines 312-320: a loss, another outcome, or a draw at a non-sequential id
EndOfStreak ==
    /\ AtRow
    /\ df[idx].Winner # player_name
    /\ ~(df[idx].Winner = "Draw" /\ is_sequential(last_id, df[idx].ID))
    /\ streaks' = EmitStreaks(streaks, current_streak)
    /\ details' = EmitDetails(details, current_streak, streak_details)
    /\ current_streak' = 0
    /\ streak_start_id' = None
    /\ streak_details' = <<>>
    /\ pending_draw' = 0
    /\ Advance

\* the streak open at the end of the input is not emitted
ReturnWithoutEmit ==
    /\ pc = "loop"
    /\ idx > Len(df)
    /\ results' = Append(results, <<streaks, details>>)
    /\ pc' = "returned"
    /\ UNCHANGED <<df, scanner, files, accuracy>>

\* lines 324-329: after the last row, emit the open streak and return
Return ==
    /\ pc = "loop"
    /\ idx > Len(df)
    /\ streaks' = EmitStreaks(streaks, current_streak)
    /\ details' = EmitDetails(details, current_streak, streak_details)
    /\ results' = Append(results, <<streaks', details'>>)
    /\ pc' = "returned"
    /\ UNCHANGED <<df, idx, current_streak, streak_start_id, streak_details,
                   last_id, pending_draw, files, accuracy>>

(***************************************************************************)
(* process_files: the outputs written after the scan                       *)
(***************************************************************************)
\* the sorted table is not assigned back to df
sort_values_not_assigned(t) == t

\* insert a row into a table ascending by ID
RECURSIVE InsertRow(_, _)
InsertRow(r, t) ==
    IF t = <<>> THEN <<r>>
    ELSE IF r.ID <= Head(t).ID THEN <<r>> \o t
    ELSE <<Head(t)>> \o InsertRow(r, Tail(t))

RECURSIVE SortRows(_)
SortRows(t) == IF t = <<>> THEN <<>> ELSE InsertRow(Head(t), SortRows(Tail(t)))

\* df.sort_values(by='ID').reset_index(drop=True) (line 375), ids unique
sort_values_by_ID(t) == SortRows(t)

\* line 375: df is replaced by its rows sorted by ID
SortByID ==
    /\ pc = "read"
    /\ df' = sort_values_by_ID(df)
    /\ pc' = "call"
    /\ UNCHANGED <<scanner, results, files, accuracy>>

\* the sorted streaks are not the ones written
SortValuesNotApplied(s) == s

\* insert x into an ascending sequence, before the first larger element
RECURSIVE Insert(_, _)
Insert(x, s) ==
    IF s = <<>> THEN <<x>>
    ELSE IF x <= Head(s) THEN <<x>> \o s
    ELSE <<Head(s)>> \o Insert(x, Tail(s))

\* streaks_df.sort_values(by='Streak', ascending=True) (line 391)
RECURSIVE SortValues(_)
SortValues(s) == IF s = <<>> THEN <<>> ELSE Insert(Head(s), SortValues(Tail(s)))

\* lines 383-393: the unordered streaks, the details and the ordered streaks
\* of the call that just returned are written to their files
WriteOutputs ==
    /\ pc = "returned"
    /\ unordered_csv' = Append(unordered_csv, results[Len(results)][1])
    /\ details_csv' = Append(details_csv, results[Len(results)][2])
    /\ ordered_csv' = Append(ordered_csv, SortValues(results[Len(results)][1]))
    /\ pc' = "written"
    /\ UNCHANGED <<df, scanner, results, frequencies_csv, accuracy>>

(***************************************************************************)
(* create_combined_frequencies_dataframe                                   *)
(***************************************************************************)
\* the values of a sequence
Values(s) == {s[i] : i \in 1..Len(s)}

\* np.arange(start, stop, step) for step > 0: ceil((stop - start) / step)
\* values start, start + step, ... (line 346)
arange(start, stop, step) ==
    LET n == IF stop > start THEN (stop - start + step - 1) \div step ELSE 0
    IN  [i \in 1..n |-> start + (i - 1) * step]

\* the stop value is the maximum itself, which arange excludes
xi_values_exclusive(max_value) == arange(GridStart, max_value, Half)

\* line 346
xi_values(max_value) == arange(GridStart, max_value + Half, Half)

\* the count of the streaks of at least xi
CountAtLeast(data, xi) == Cardinality({i \in 1..Len(data) : data[i] >= xi})

\* np.sum(data['Streak'] == xi) (line 353)
CountEqual(data, xi) == Cardinality({i \in 1..Len(data) : data[i] = xi})

\* lines 352-360: the table of Xi and Fi
result_df(data, xi) ==
    [i \in 1..Len(xi) |-> [Xi |-> xi[i], Fi |-> CountEqual(data, xi[i])]]

\* lines 340-370: the frequency table of the ordered streak file just written.
\* The maximum of an empty column is NaN and np.arange(2, NaN, 0.5) raises
\* ValueError before anything is written; nothing catches it.
CreateFrequencies ==
    /\ pc = "written"
    /\ LET data == ordered_csv[Len(ordered_csv)]
       IN  IF data = <<>>
           THEN /\ pc' = "ValueError"
                /\ UNCHANGED frequencies_csv
           ELSE /\ frequencies_csv' =
                       Append(frequencies_csv,
                              result_df(data, xi_values(Max(Values(data)))))
                /\ pc' = "done"
    /\ UNCHANGED <<df, scanner, results, unordered_csv, details_csv,
                   ordered_csv, accuracy>>

(***************************************************************************)
(* process_files: the loop over the players                                *)
(***************************************************************************)
\* the loop goes on with the next player after a failed frequency step
NextPlayerAfterError ==
    /\ pc \in {"done", "ValueError"}
    /\ Len(results) < NumPlayers
    /\ IsPlayerFile(df')
    /\ pc' = "read"
    /\ UNCHANGED <<scanner, results, files, accuracy>>

\* lines 373-374: after a player's frequency table is written the loop reads
\* the next player's file; the players are taken in the order of the
\* dictionary, and an exception ends the loop
NextPlayer ==
    /\ pc = "done"
    /\ Len(results) < NumPlayers
    /\ IsPlayerFile(df')
    /\ pc' = "read"
    /\ UNCHANGED <<scanner, results, files, accuracy>>

(***************************************************************************)
(* src/stockfish_accuracies_calculator.py: main and its two resume files   *)
(*                                                                         *)
(* A game ID is a Python str, modelled as the sequence of its characters:  *)
(* the digits '0'..'9' are 0..9 and "unknown_", the prefix of the ID given *)
(* to a game without an ID header, is the one character Unknown, which is  *)
(* above the digits as 'u' is in Python's comparison of strings.           *)
(***************************************************************************)
\* the "unknown_" of line 244
Unknown == 10

\* str(index + 1) of data_processor.py line 983: the decimal digits of n >= 1
RECURSIVE str(_)
str(n) == IF n < 10 THEN <<n>> ELSE str(n \div 10) \o <<n % 10>>

\* line 244: game.headers.get("ID", f"unknown_{game_index}") for the game at
\* position i of the file; a missing header is <<>> in pgn_file
game_id(i) ==
    IF pgn_file[i] = <<>> THEN <<Unknown>> \o str(i) ELSE pgn_file[i]

\* a <= b of two Python strings (line 246): character by character, a proper
\* prefix being smaller
RECURSIVE StrLessOrEqual(_, _)
StrLessOrEqual(a, b) ==
    IF a = <<>> THEN TRUE
    ELSE IF b = <<>> THEN FALSE
    ELSE IF Head(a) < Head(b) THEN TRUE
    ELSE IF Head(a) > Head(b) THEN FALSE
    ELSE StrLessOrEqual(Tail(a), Tail(b))

\* a cell that pd.read_csv parses as an integer
IsDigits(s) == s # <<>> /\ \A i \in 1..Len(s) : s[i] \in 0..9

RECURSIVE int(_)
int(s) == IF s = <<>> THEN 0 ELSE int(SubSeq(s, 1, Len(s) - 1)) * 10 + s[Len(s)]

\* df['ID'] of pd.read_csv (line 95): a column whose cells are all digits is
\* an int64 column, any other column holds the cells as str
read_csv_ID(rows) ==
    IF \A i \in 1..Len(rows) : IsDigits(rows[i])
    THEN [i \in 1..Len(rows) |-> [type |-> "int64", value |-> int(rows[i])]]
    ELSE [i \in 1..Len(rows) |-> [type |-> "str", value |-> rows[i]]]

\* lines 91-101: the set of the IDs of the accuracy file, empty without a file
load_processed_ids(csv) ==
    IF csv = <<>> THEN {}
    ELSE {read_csv_ID(csv)[i] : i \in 1..Len(csv)}

\* lines 212-221: the text of the checkpoint file, None without a file
load_last_processed_game(checkpoint) == checkpoint

\* "game_id in processed_ids" (line 250) for the str game_id: a str equals no
\* int64
InProcessedIds(id, ids) == \E x \in ids : x.type = "str" /\ x.value = id

\* line 246: "last_processed_game and game_id <= last_processed_game"
AtOrBeforeCheckpoint(id, last) ==
    last # <<>> /\ last[1] # <<>> /\ StrLessOrEqual(id, last[1])

\* lines 233-237
StartMain ==
    /\ main_pc = "start"
    /\ processed_ids' = load_processed_ids(output_accuracy_csv)
    /\ last_processed_game' = load_last_processed_game(checkpoint_file)
    /\ game_index' = 0
    /\ main_pc' = "read"
    /\ UNCHANGED <<pgn_file, output_accuracy_csv, checkpoint_file, runs>>
    /\ UNCHANGED <<df, pc, scanner, results, files>>

\* a game was read (lines 239-244)
AtGame == main_pc = "read" /\ game_index < Len(pgn_file)

\* lines 246-248
SkipByCheckpoint ==
    /\ AtGame
    /\ AtOrBeforeCheckpoint(game_id(game_index + 1), last_processed_game)
    /\ game_index' = game_index + 1
    /\ UNCHANGED <<pgn_file, output_accuracy_csv, checkpoint_file,
                   processed_ids, last_processed_game, main_pc, runs>>
    /\ UNCHANGED <<df, pc, scanner, results, files>>

\* lines 250-252
SkipByProcessedIds ==
    /\ AtGame
    /\ ~AtOrBeforeCheckpoint(game_id(game_index + 1), last_processed_game)
    /\ InProcessedIds(game_id(game_index + 1), processed_ids)
    /\ game_index' = game_index + 1
    /\ UNCHANGED <<pgn_file, output_accuracy_csv, checkpoint_file,
                   processed_ids, last_processed_game, main_pc, runs>>
    /\ UNCHANGED <<df, pc, scanner, results, files>>

\* lines 254-257 and 103-113: the game is analysed (get_accuracy returns two
\* numbers, never None) and its row is appended to the accuracy file
SaveAccuracy ==
    /\ AtGame
    /\ ~AtOrBeforeCheckpoint(game_id(game_index + 1), last_processed_game)
    /\ ~InProcessedIds(game_id(game_index + 1), processed_ids)
    /\ output_accuracy_csv' =
           Append(output_accuracy_csv, game_id(game_index + 1))
    /\ game_index' = game_index + 1
    /\ main_pc' = "saved"
    /\ UNCHANGED <<pgn_file, checkpoint_file, processed_ids,
                   last_processed_game, runs>>
    /\ UNCHANGED <<df, pc, scanner, results, files>>

\* lines 258 and 223-230: the checkpoint file is overwritten with the ID
save_last_processed_game ==
    /\ main_pc = "saved"
    /\ checkpoint_file' = <<game_id(game_index)>>
    /\ main_pc' = "read"
    /\ UNCHANGED <<pgn_file, output_accuracy_csv, processed_ids,
                   last_processed_game, game_index, runs>>
    /\ UNCHANGED <<df, pc, scanner, results, files>>

\* lines 240-241: no game is left
EndOfGames ==
    /\ main_pc = "read"
    /\ game_index = Len(pgn_file)
    /\ main_pc' = "exit"
    /\ UNCHANGED <<pgn_file, output_accuracy_csv, checkpoint_file,
                   processed_ids, last_processed_game, game_index, runs>>
    /\ UNCHANGED <<df, pc, scanner, results, files>>

\* lines 262-263: the script is run again, after main returned or after the
\* run was stopped (an interrupt, an error of the engine) at any game; the
\* two files stay as the earlier run left them
RunAgain ==
    /\ main_pc \in {"read", "saved", "exit"}
    /\ runs < MaxRuns
    /\ runs' = runs + 1
    /\ main_pc' = "start"
    /\ UNCHANGED <<pgn_file, output_accuracy_csv, checkpoint_file,
                   processed_ids, last_processed_game, game_index>>
    /\ UNCHANGED <<df, pc, scanner, results, files>>

\* the accuracy script is not run
NoAccuracyRun ==
    /\ pgn_file = <<>>
    /\ output_accuracy_csv = <<>>
    /\ checkpoint_file = <<>>
    /\ processed_ids = {}
    /\ last_processed_game = <<>>
    /\ game_index = 0
    /\ main_pc = "idle"
    /\ runs = 0

(***************************************************************************)
(* Specifications                                                          *)
(***************************************************************************)
InitState ==
    /\ pc = "call"
    /\ idx = 1
    /\ streaks = <<>>
    /\ details = <<>>
    /\ current_streak = 0
    /\ streak_start_id = None
    /\ streak_details = <<>>
    /\ last_id = None
    /\ pending_draw = 0
    /\ results = <<>>
    /\ unordered_csv = <<>>
    /\ details_csv = <<>>
    /\ ordered_csv = <<>>
    /\ frequencies_csv = <<>>
    /\ NoAccuracyRun

ScanRow ==
    \/ WinNewStreak
    \/ WinContinuation
    \/ DrawInStreak
    \/ DrawNoStreak
    \/ EndOfStreak

\* one pass of process_files for one player: the file sorted by ID is scanned
\* (lines 374-380), the outputs are written and the frequencies computed
Init == IsSortedTable(df) /\ InitState

Next ==
    \/ Call
    \/ ScanRow
    \/ Return
    \/ WriteOutputs
    \/ CreateFrequencies

Spec == Init /\ [][Next]_vars

\* the scanner alone, on any table: rows in any order, ids possibly repeated
InitAny == IsAnyTable(df) /\ InitState

NextScan ==
    \/ Call
    \/ ScanRow
    \/ Return

SpecAny == InitAny /\ [][NextScan]_vars

\* a second call of the scanner on the table of the first call
CallAgain ==
    /\ pc = "returned"
    /\ Len(results) = 1
    /\ InitLocals
    /\ pc' = "loop"
    /\ UNCHANGED <<df, results, files, accuracy>>

NextTwice ==
    \/ NextScan
    \/ CallAgain

SpecTwice == Init /\ [][NextTwice]_vars

\* one pass of process_files on tables with longer runs and equal ratings
InitOutputs == IsOutcomeTable(df) /\ InitState

SpecOutputs == InitOutputs /\ [][Next]_vars

\* process_files from the file as read (line 374) to the return of the scan
InitRead ==
    /\ IsFileTable(df)
    /\ pc = "read"
    /\ idx = 1
    /\ streaks = <<>>
    /\ details = <<>>
    /\ current_streak = 0
    /\ streak_start_id = None
    /\ streak_details = <<>>
    /\ last_id = None
    /\ pending_draw = 0
    /\ results = <<>>
    /\ unordered_csv = <<>>
    /\ details_csv = <<>>
    /\ ordered_csv = <<>>
    /\ frequencies_csv = <<>>
    /\ NoAccuracyRun

NextRead ==
    \/ SortByID
    \/ NextScan

SpecRead == InitRead /\ [][NextRead]_vars

\* the scanner on a table with empty cells
InitMissing == IsTableWithMissing(df) /\ InitState

SpecMissing == InitMissing /\ [][NextScan]_vars

\* process_files over all the players, from the first player's file
InitPlayers ==
    /\ IsPlayerFile(df)
    /\ pc = "read"
    /\ idx = 1
    /\ streaks = <<>>
    /\ details = <<>>
    /\ current_streak = 0
    /\ streak_start_id = None
    /\ streak_details = <<>>
    /\ last_id = None
    /\ pending_draw = 0
    /\ results = <<>>
    /\ unordered_csv = <<>>
    /\ details_csv = <<>>
    /\ ordered_csv = <<>>
    /\ frequencies_csv = <<>>
    /\ NoAccuracyRun

NextPlayers ==
    \/ SortByID
    \/ Call
    \/ ScanRow
    \/ Return
    \/ WriteOutputs
    \/ CreateFrequencies
    \/ NextPlayer

SpecPlayers == InitPlayers /\ [][NextPlayers]_vars

\* the accuracy script, first run on a file written by add_headers_to_pgn
\* (data_processor.py lines 971-995: game i has the ID str(i)) in which at
\* most MaxUnknown games have lost their ID header; no accuracy file and no
\* checkpoint exist yet
InitAccuracy ==
    /\ \E n \in 0..MaxGames :
          \E missing \in SUBSET (1..n) :
              /\ Cardinality(missing) <= MaxUnknown
              /\ pgn_file = [i \in 1..n |->
                                IF i \in missing THEN <<>> ELSE str(i)]
    /\ output_accuracy_csv = <<>>
    /\ checkpoint_file = <<>>
    /\ processed_ids = {}
    /\ last_processed_game = <<>>
    /\ game_index = 0
    /\ main_pc = "start"
    /\ runs = 1
    /\ df = <<>>
    /\ pc = "idle"
    /\ idx = 1
    /\ streaks = <<>>
    /\ details = <<>>
    /\ current_streak = 0
    /\ streak_start_id = None
    /\ streak_details = <<>>
    /\ last_id = None
    /\ pending_draw = 0
    /\ results = <<>>
    /\ unordered_csv = <<>>
    /\ details_csv = <<>>
    /\ ordered_csv = <<>>
    /\ frequencies_csv = <<>>

NextAccuracy ==
    \/ StartMain
    \/ SkipByCheckpoint
    \/ SkipByProcessedIds
    \/ SaveAccuracy
    \/ save_last_processed_game
    \/ EndOfGames
    \/ RunAgain

SpecAccuracy == InitAccuracy /\ [][NextAccuracy]_vars

(***************************************************************************)
(* Vocabulary of the properties                                            *)
(***************************************************************************)
\* the ID column and the Winner column of a table or of a detail list
IdsOf(t) == [i \in 1..Len(t) |-> t[i].ID]
WinnersOf(t) == [i \in 1..Len(t) |-> t[i].Winner]

\* consecutive entries differ by exactly 1
Consecutive(d) == \A i \in 1..(Len(d) - 1) : d[i + 1].ID = d[i].ID + 1

\* the entries a step has added to the returned details list
Added == SubSeq(details', Len(details) + 1, Len(details'))

\* a step emits a streak
Emits == Len(streaks') > Len(streaks)

\* the scan of the first call has returned
Returned == pc = "returned" /\ Len(results) = 1

\* Blocks of a returned details list: a block starts at the first entry and
\* wherever the id is not the previous id plus 1.
BlockStarts(d) == {p \in 1..Len(d) : p = 1 \/ d[p].ID # d[p - 1].ID + 1}
BlockEnd(d, p) == Min({q \in p..Len(d) : q = Len(d) \/ (q + 1) \in BlockStarts(d)})
BlockIndex(d, p) == Cardinality({q \in BlockStarts(d) : q <= p})

\* a table of the given ids and winners, whatever the ratings
IsTable(ids, ws) == IdsOf(df) = ids /\ WinnersOf(df) = ws

(***************************************************************************)
(* C1. Every streak length the scanner emits, at any of its four emission  *)
(* points and for any input table (rows in any order, ids repeated or      *)
(* not), is strictly greater than 1.                                       *)
(***************************************************************************)
C1_EmittedExceedsOne ==
    /\ \A i \in 1..Len(streaks) : streaks[i] > One
    /\ \A r \in 1..Len(results) :
          \A i \in 1..Len(results[r][1]) : results[r][1][i] > One

\* a streak was emitted and the run of length 1 opened by the last row was
\* dropped at the end of the input
C1_Witness ==
    /\ pc = "returned"
    /\ streaks # <<>>
    /\ current_streak = One

(***************************************************************************)
(* C2. For ascending unique ids, the emitted streaks have disjoint id      *)
(* ranges in emission order: every id of a newly emitted streak is larger  *)
(* than every id emitted before it.                                        *)
(***************************************************************************)
C2_RangesIncrease ==
    [][Emits =>
         /\ Added # <<>>
         /\ details' = details \o Added
         /\ \A i \in 1..Len(details) : \A j \in 1..Len(Added) :
               details[i].ID < Added[j].ID]_vars

C2_Witness == Returned /\ Len(streaks) = 2

(***************************************************************************)
(* C3. The details of one emitted streak have consecutive ids, so two wins *)
(* separated by an id gap are never in the same streak, and the table      *)
(* [(1,Win),(3,Win)] emits nothing.                                        *)
(***************************************************************************)
C3_ContiguousDetails ==
    /\ [][Emits => (Added # <<>> /\ Consecutive(Added))]_vars
    /\ [](Returned /\ IsTable(<<1, 3>>, <<player_name, player_name>>)
            => streaks = <<>> /\ details = <<>>)

\* wins at ids 1, 3, 4: the streak emitted is 3..4 and id 1 is not in it
C3_Witness ==
    /\ Returned
    /\ IsTable(<<1, 3, 4>>, <<player_name, player_name, player_name>>)
    /\ streaks = <<One + One>>
    /\ IdsOf(details) = <<3, 4>>

(***************************************************************************)
(* C4. For [(1,Win),(2,Draw),(3,Win)] the scanner emits exactly one streak *)
(* with the details of ids 1, 2, 3 in that order. As stated, its length is *)
(* 3 (C4_Original); the code gives 1 + (1 + 0.5) = 2.5 (C4_ScenarioB).     *)
(***************************************************************************)
ScenarioB == Returned /\ IsTable(<<1, 2, 3>>, <<player_name, "Draw", player_name>>)

C4_Original ==
    ScenarioB =>
        /\ streaks = <<One + One + One>>
        /\ details = [i \in 1..3 |-> RowDetail(df[i])]

C4_ScenarioB ==
    ScenarioB =>
        /\ streaks = <<One + One + Half>>
        /\ details = [i \in 1..3 |-> RowDetail(df[i])]
        /\ results[1] = <<streaks, details>>

C4_Witness == ScenarioB /\ Len(streaks) = 1

(***************************************************************************)
(* C5. A run of n >= 2 wins with consecutive ids, bounded on each side by  *)
(* a loss, an id gap or the end of the input, yields exactly one emitted   *)
(* streak: one block of the details, holding exactly the n entries of the  *)
(* run in order, whose length in the streak list is n.                     *)
(***************************************************************************)
\* rows i..j of the table are such a run
BoundedWinRun(i, j) ==
    /\ i < j
    /\ \A k \in i..j : df[k].Winner = player_name
    /\ \A k \in i..(j - 1) : df[k + 1].ID = df[k].ID + 1
    /\ i = 1 \/ df[i - 1].ID # df[i].ID - 1 \/ df[i - 1].Winner = "Opponent"
    /\ j = Len(df) \/ df[j + 1].ID # df[j].ID + 1 \/ df[j + 1].Winner = "Opponent"

C5_WinRunIsOneStreak ==
    Returned =>
        /\ Len(streaks) = Cardinality(BlockStarts(details))
        /\ \A i \in 1..Len(df) : \A j \in i..Len(df) :
              BoundedWinRun(i, j) =>
                /\ Cardinality({p \in 1..Len(details) :
                        \E k \in i..j : details[p].ID = df[k].ID}) = j - i + 1
                /\ \E p \in BlockStarts(details) :
                      /\ BlockEnd(details, p) = p + (j - i)
                      /\ SubSeq(details, p, p + (j - i)) =
                             [k \in 1..(j - i + 1) |-> RowDetail(df[i + k - 1])]
                      /\ streaks[BlockIndex(details, p)] = (j - i + 1) * One

\* Scenario A
C5_Witness ==
    /\ Returned
    /\ IsTable(<<1, 2, 3>>, <<player_name, player_name, player_name>>)
    /\ streaks = <<One + One + One>>
    /\ IdsOf(details) = <<1, 2, 3>>

(***************************************************************************)
(* C6. For [(1,Win),(2,Draw),(3,Loss)] nothing is emitted: the returned    *)
(* streak list and the returned details list are both empty.               *)
(***************************************************************************)
ScenarioC == Returned /\ IsTable(<<1, 2, 3>>, <<player_name, "Draw", "Opponent">>)

C6_ScenarioC == ScenarioC => results[1] = <<(<<>>), (<<>>)>>

\* the draw's entry was dropped with the open streak of length 1
C6_Witness == ScenarioC /\ streak_details = <<>>

(***************************************************************************)
(* C7. Every emitted streak is a maximal run of non-losing games. As       *)
(* stated (C7_Original): for a streak covering ids a..b, neither the row   *)
(* with id a-1 nor the row with id b+1 is a win or a draw. The code never  *)
(* opens a streak at a draw, so the row a-1 can be a draw (C7_Maximal):    *)
(* the row a-1 is not a win, and the row b+1 is neither a win nor a draw.  *)
(***************************************************************************)
NonLosing == {player_name, "Draw"}

C7_Original ==
    Returned =>
        \A p \in BlockStarts(details) : \A k \in 1..Len(df) :
            /\ df[k].ID = details[p].ID - 1 => df[k].Winner \notin NonLosing
            /\ df[k].ID = details[BlockEnd(details, p)].ID + 1
                  => df[k].Winner \notin NonLosing

C7_Maximal ==
    Returned =>
        /\ Len(streaks) = Cardinality(BlockStarts(details))
        /\ \A p \in BlockStarts(details) : \A k \in 1..Len(df) :
              /\ df[k].ID = details[p].ID - 1 => df[k].Winner # player_name
              /\ df[k].ID = details[BlockEnd(details, p)].ID + 1
                    => df[k].Winner \notin NonLosing

\* a streak 2..3 with a draw before it and a loss after it
C7_Witness ==
    /\ Returned
    /\ IsTable(<<1, 2, 3, 4>>, <<"Draw", player_name, player_name, "Opponent">>)
    /\ streaks = <<One + One>>
    /\ IdsOf(details) = <<2, 3>>

(***************************************************************************)
(* C8. Two calls of the scanner on the same table return the same streak   *)
(* list and the same details list, and the table is not modified.          *)
(***************************************************************************)
C8_SameResultTwice ==
    /\ [](Len(results) = 2 => results[1] = results[2])
    /\ [][df' = df]_vars

C8_Witness == Len(results) = 2 /\ Len(results[2][1]) = 2

(***************************************************************************)
(* C9. A streak whose length exceeds 1 is emitted exactly once: in the     *)
(* step that closes it (a win opening a new streak, a loss or other        *)
(* outcome, a non-sequential id, the end of the input), with its length    *)
(* and its entries; no other step changes the output lists. At the return  *)
(* a streak still open with length above 1 is the last one emitted.        *)
(***************************************************************************)
Closes == pc = "loop" /\ (pc' = "returned" \/ streak_start_id' # streak_start_id)

C9_EmittedExactlyOnce ==
    /\ [][IF Closes /\ current_streak > One
          THEN /\ streaks' = Append(streaks, current_streak)
               /\ details' = details \o streak_details
          ELSE /\ streaks' = streaks
               /\ details' = details]_vars
    /\ [](Returned /\ current_streak > One =>
            /\ streaks # <<>>
            /\ streaks[Len(streaks)] = current_streak
            /\ Len(details) >= Len(streak_details)
            /\ SubSeq(details, Len(details) - Len(streak_details) + 1,
                      Len(details)) = streak_details)

\* one streak closed by a gap and one closed by the end of the input
C9_Witness ==
    /\ Returned
    /\ Len(streaks) = 2
    /\ current_streak > One
    /\ streak_start_id # None

(***************************************************************************)
(* C10. For a non-empty list of emitted lengths the Xi column is exactly   *)
(* 2, 2.5, ..., max(lengths): it starts at 2, rises by 0.5, ends at the    *)
(* maximum, and a value no streak has is present with count 0. Only an     *)
(* empty list makes the aggregator fail.                                   *)
(***************************************************************************)
C10_DenseGrid ==
    /\ pc = "ValueError" => results[1][1] = <<>>
    /\ pc = "done" =>
         /\ results[1][1] # <<>>
         /\ LET t == frequencies_csv[1]
                m == Max(Values(results[1][1]))
            IN  /\ Len(t) = m - GridStart + 1
                /\ t[1].Xi = GridStart
                /\ t[Len(t)].Xi = m
                /\ \A i \in 1..(Len(t) - 1) : t[i + 1].Xi = t[i].Xi + Half
                /\ \A i \in 1..Len(t) :
                      t[i].Xi \notin Values(results[1][1]) => t[i].Fi = 0

\* only a streak of length 3.5 was emitted: 2, 2.5 and 3 have count 0
C10_Witness ==
    /\ pc = "done"
    /\ results[1][1] = <<One + One + One + Half>>
    /\ Len(frequencies_csv[1]) = 4
    /\ frequencies_csv[1][1] = [Xi |-> GridStart, Fi |-> 0]

(***************************************************************************)
(* C11. For each grid value x of the frequency table, Fi is the number of  *)
(* emitted streaks whose length is exactly x.                              *)
(***************************************************************************)
C11_CountsExact ==
    pc = "done" =>
        \A i \in 1..Len(frequencies_csv[1]) :
            frequencies_csv[1][i].Fi =
                Cardinality({k \in 1..Len(results[1][1]) :
                                results[1][1][k] = frequencies_csv[1][i].Xi})

\* streaks of lengths 3 and 2 were emitted: counts 1, 0, 1
C11_Witness ==
    /\ pc = "done"
    /\ results[1][1] = <<One + One + One, One + One>>
    /\ frequencies_csv[1] = <<[Xi |-> One + One, Fi |-> 1],
                              [Xi |-> One + One + Half, Fi |-> 0],
                              [Xi |-> One + One + One, Fi |-> 1]>>

(***************************************************************************)
(* C12. With an empty list of streak lengths the aggregator signals an     *)
(* explicit empty-input error and writes no table; it does not fail on the *)
(* NaN maximum inside the grid construction.                               *)
(***************************************************************************)
C12_ExplicitEmptyError ==
    (pc \in {"done", "ValueError", "EmptyInputError"} /\ ordered_csv = <<(<<>>)>>)
        => (pc = "EmptyInputError" /\ frequencies_csv = <<>>)

(***************************************************************************)
(* C13. The ordered streak file is a permutation of the emitted lengths in *)
(* non-decreasing order; the unordered file keeps the emission order.      *)
(***************************************************************************)
Occurrences(s, v) == Cardinality({i \in 1..Len(s) : s[i] = v})

C13_OrderedIsSortedPermutation ==
    pc \in {"written", "done", "ValueError"} =>
        /\ unordered_csv = <<results[1][1]>>
        /\ Len(ordered_csv[1]) = Len(results[1][1])
        /\ \A i \in 1..(Len(ordered_csv[1]) - 1) :
              ordered_csv[1][i] <= ordered_csv[1][i + 1]
        /\ \A i \in 1..Len(results[1][1]) :
              Occurrences(ordered_csv[1], results[1][1][i]) =
                 Occurrences(results[1][1], results[1][1][i])

\* emitted 3 then 2: the ordered file holds 2 then 3
C13_Witness ==
    /\ pc = "written"
    /\ unordered_csv = <<(<<One + One + One, One + One>>)>>
    /\ ordered_csv = <<(<<One + One, One + One + One>>)>>

(***************************************************************************)
(* C14. Whatever the order of the rows of the file, the scanner is handed  *)
(* the same rows sorted ascending by ID, and visits them in that order,    *)
(* each exactly once, without sorting again.                               *)
(***************************************************************************)
RowSet(t) == {t[i] : i \in 1..Len(t)}

C14_SortedThenVisitedInOrder ==
    /\ [][pc = "read" =>
            /\ pc' = "call"
            /\ Len(df') = Len(df)
            /\ RowSet(df') = RowSet(df)
            /\ \A i \in 1..(Len(df') - 1) : df'[i].ID < df'[i + 1].ID]_vars
    /\ [][pc # "read" => df' = df]_vars
    /\ [][pc = "call" => idx' = 1]_vars
    /\ [][(pc = "loop" /\ pc' = "loop") =>
            (idx <= Len(df) /\ idx' = idx + 1 /\ last_id' = df[idx].ID)]_vars
    /\ [](pc = "returned" => idx = Len(df) + 1)

\* a file whose rows are not in ID order
C14_Witness == pc = "read" /\ IdsOf(df) = <<3, 1, 2>>

(***************************************************************************)
(* C15. When a record lacks a required field, the scan aborts with an      *)
(* error at that record and returns no streaks; the record is never        *)
(* treated as some outcome while the scan goes on.                         *)
(***************************************************************************)
HasMissingField(row) ==
    \/ row.Winner = NaNText
    \/ row.Opponent_ELO = NaNNumber
    \/ row.ELO_Difference = NaNNumber

ScanErrors == {"KeyError", "IndexError", "TypeError", "ValueError"}

C15_MissingFieldAborts ==
    /\ [][(AtRow /\ HasMissingField(df[idx])) => pc' \in ScanErrors]_vars
    /\ [](pc = "returned" => \A i \in 1..Len(df) : ~HasMissingField(df[i]))

(***************************************************************************)
(* C16. A record whose id is not last_id + 1, met while a streak is open,  *)
(* terminates that streak whatever its outcome: the streak is emitted iff  *)
(* its length exceeds 1, and the step leaves no streak open (draw, loss,   *)
(* other) or a fresh streak of length 1 at this record (win).              *)
(***************************************************************************)
NonSequentialInStreak ==
    AtRow /\ streak_start_id # None /\ df[idx].ID # last_id + 1

C16_NonSequentialTerminates ==
    [][NonSequentialInStreak =>
         /\ streaks' = IF current_streak > One
                        THEN Append(streaks, current_streak) ELSE streaks
         /\ details' = IF current_streak > One
                        THEN details \o streak_details ELSE details
         /\ pending_draw' = 0
         /\ IF df[idx].Winner = player_name
            THEN /\ current_streak' = One
                 /\ streak_start_id' = df[idx].ID
                 /\ streak_details' = <<RowDetail(df[idx])>>
            ELSE /\ current_streak' = 0
                 /\ streak_start_id' = None
                 /\ streak_details' = <<>>]_vars

\* two wins, then a draw after an id gap: the streak of 2 was emitted and no
\* streak is open
C16_Witness ==
    /\ pc = "loop"
    /\ idx = 4
    /\ WinnersOf(df)[1] = player_name /\ WinnersOf(df)[2] = player_name
    /\ df[3].Winner = "Draw"
    /\ df[2].ID = df[1].ID + 1
    /\ df[3].ID # df[2].ID + 1
    /\ streaks = <<One + One>>
    /\ streak_start_id = None

(***************************************************************************)
(* C17. A draw met when no streak is open, or at a non-sequential id, is a *)
(* no-op apart from pending_draw = 0 and last_id (C17_Original). The code  *)
(* closes an open streak at a non-sequential draw, so the no-op holds only *)
(* when no streak is open (C17_DrawWithoutStreak).                         *)
(***************************************************************************)
DrawIsNoOp ==
    /\ pending_draw' = 0
    /\ last_id' = df[idx].ID
    /\ UNCHANGED <<streaks, details, current_streak, streak_start_id,
                   streak_details>>

C17_Original ==
    [][(AtRow /\ df[idx].Winner = "Draw"
          /\ (streak_start_id = None \/ df[idx].ID # last_id + 1))
        => DrawIsNoOp]_vars

C17_DrawWithoutStreak ==
    /\ [][(AtRow /\ df[idx].Winner = "Draw" /\ streak_start_id = None)
           => DrawIsNoOp]_vars
    /\ [][(NonSequentialInStreak /\ df[idx].Winner = "Draw") =>
            /\ streaks' = EmitStreaks(streaks, current_streak)
            /\ details' = EmitDetails(details, current_streak, streak_details)
            /\ current_streak' = 0
            /\ streak_start_id' = None
            /\ streak_details' = <<>>
            /\ pending_draw' = 0
            /\ last_id' = df[idx].ID]_vars

\* win, win, loss, draw: the draw left the emitted streak and the state alone
C17_Witness ==
    /\ pc = "loop"
    /\ idx = 5
    /\ IsTable(<<1, 2, 3, 4>>, <<player_name, player_name, "Opponent", "Draw">>)
    /\ streaks = <<One + One>>
    /\ streak_start_id = None
    /\ pending_draw = 0
    /\ last_id = 4

(***************************************************************************)
(* C18. In the continuing-win step the range last_id+1 .. id would hold an *)
(* id other than the record's own after a pending draw (C18_Original). In  *)
(* the code the step is taken only when id = last_id + 1: the range is the *)
(* record's id alone and one entry, the record's, is appended              *)
(* (C18_RangeIsCurrentId).                                                 *)
(***************************************************************************)
ContinuingWin ==
    /\ AtRow
    /\ df[idx].Winner = player_name
    /\ streak_start_id # None
    /\ df[idx].ID = last_id + 1

C18_Original ==
    (ContinuingWin /\ pending_draw = Half) =>
        \E k \in 1..Len(ContinuationIds(last_id, df[idx].ID)) :
            ContinuationIds(last_id, df[idx].ID)[k] # df[idx].ID

C18_RangeIsCurrentId ==
    /\ [](ContinuingWin => ContinuationIds(last_id, df[idx].ID) = <<df[idx].ID>>)
    /\ [][ContinuingWin =>
            streak_details' = Append(streak_details, RowDetail(df[idx]))]_vars

\* win, draw, win: the third record continues the streak after the draw
C18_Witness ==
    /\ pc = "loop"
    /\ idx = 4
    /\ IsTable(<<1, 2, 3>>, <<player_name, "Draw", player_name>>)
    /\ IdsOf(streak_details) = <<1, 2, 3>>

(***************************************************************************)
(* C19. A streak of length above 1 that receives a sequential draw and is  *)
(* then closed by a loss or the end of the input is emitted with its       *)
(* length without the draw's 0.5 and with the draw's entry in its details: *)
(* [(1,Win),(2,Win),(3,Draw),(4,Loss)] emits one streak of length 2 with   *)
(* the entries of ids 1, 2, 3.                                             *)
(***************************************************************************)
C19_DrawEntryWithoutWeight ==
    /\ [](Returned /\ IsTable(<<1, 2, 3, 4>>,
                              <<player_name, player_name, "Draw", "Opponent">>)
            => /\ streaks = <<One + One>>
               /\ details = [i \in 1..3 |-> RowDetail(df[i])])
    /\ [][(pc = "loop" /\ pending_draw = Half /\ current_streak > One
             /\ (idx > Len(df) \/ df[idx].Winner = "Opponent")) =>
            /\ streaks' = Append(streaks, current_streak)
            /\ Added = streak_details
            /\ df[idx - 1].Winner = "Draw"
            /\ Added[Len(Added)] = RowDetail(df[idx - 1])]_vars

C19_Witness ==
    /\ Returned
    /\ IsTable(<<1, 2, 3, 4>>, <<player_name, player_name, "Draw", "Opponent">>)
    /\ IdsOf(details) = <<1, 2, 3>>

(***************************************************************************)
(* C20. A win that continues an open streak at a sequential id adds        *)
(* exactly 1 plus the pending draw weight (1 or 1.5) to current_streak,    *)
(* resets the pending draw weight to 0 and leaves the output lists alone.  *)
(***************************************************************************)
C20_ContinuationAddsOnePlusPending ==
    [][ContinuingWin =>
         /\ pending_draw \in {0, Half}
         /\ current_streak' = current_streak + One + pending_draw
         /\ pending_draw' = 0
         /\ streaks' = streaks
         /\ details' = details]_vars

\* win, draw, win, win: the length went 1, 1, 2.5, 3.5
C20_Witness ==
    /\ pc = "loop"
    /\ idx = 5
    /\ IsTable(<<1, 2, 3, 4>>, <<player_name, "Draw", player_name, player_name>>)
    /\ current_streak = One + One + One + Half
    /\ pending_draw = 0

(***************************************************************************)
(* C21. A win processed when no streak is open, or at a non-sequential id, *)
(* first emits the previous streak iff its length exceeded 1, and leaves   *)
(* current_streak = 1, streak_start_id = this record's id, streak_details  *)
(* = this record's entry alone, and the pending draw weight 0.             *)
(***************************************************************************)
C21_WinOpensFreshStreak ==
    [][(AtRow /\ df[idx].Winner = player_name
          /\ (streak_start_id = None \/ df[idx].ID # last_id + 1)) =>
         /\ streaks' = IF current_streak > One
                        THEN Append(streaks, current_streak) ELSE streaks
         /\ details' = IF current_streak > One
                        THEN details \o streak_details ELSE details
         /\ current_streak' = One
         /\ streak_start_id' = df[idx].ID
         /\ streak_details' = <<RowDetail(df[idx])>>
         /\ pending_draw' = 0]_vars

\* win, draw, then a win after an id gap: the pending draw is gone and the
\* new streak holds the third record alone
C21_Witness ==
    /\ pc = "loop"
    /\ idx = 4
    /\ IsTable(<<1, 2, 4>>, <<player_name, "Draw", player_name>>)
    /\ streaks = <<>>
    /\ current_streak = One
    /\ streak_start_id = 4
    /\ IdsOf(streak_details) = <<4>>
    /\ pending_draw = 0

(***************************************************************************)
(* C22. A draw at a sequential id while a streak is open leaves            *)
(* current_streak, streak_start_id and the output lists unchanged, sets    *)
(* the pending draw weight to 0.5 and appends exactly one entry, this      *)
(* record's, to streak_details.                                            *)
(***************************************************************************)
C22_DrawInStreakFrame ==
    [][(AtRow /\ df[idx].Winner = "Draw" /\ streak_start_id # None
          /\ df[idx].ID = last_id + 1) =>
         /\ UNCHANGED <<current_streak, streak_start_id, streaks, details>>
         /\ pending_draw' = Half
         /\ streak_details' = Append(streak_details, RowDetail(df[idx]))]_vars

\* win, win, draw
C22_Witness ==
    /\ pc = "loop"
    /\ idx = 4
    /\ IsTable(<<1, 2, 3>>, <<player_name, player_name, "Draw">>)
    /\ current_streak = One + One
    /\ streak_start_id = 1
    /\ pending_draw = Half
    /\ IdsOf(streak_details) = <<1, 2, 3>>
    /\ streaks = <<>>

(***************************************************************************)
(* C23. A loss, or any outcome that is neither the player's win literal    *)
(* nor 'Draw', emits the current streak iff current_streak > 1 and leaves  *)
(* the scanner reset: current_streak = 0, streak_start_id unset,           *)
(* streak_details empty, pending draw weight 0. The streaks and details    *)
(* emitted before stay as they were.                                       *)
(***************************************************************************)
C23_LossEmitsAndResets ==
    [][(AtRow /\ df[idx].Winner \notin {player_name, "Draw"}) =>
         /\ IF current_streak > One
            THEN /\ streaks' = Append(streaks, current_streak)
                 /\ details' = details \o streak_details
            ELSE /\ streaks' = streaks
                 /\ details' = details
         /\ current_streak' = 0
         /\ streak_start_id' = None
         /\ streak_details' = <<>>
         /\ pending_draw' = 0]_vars

\* win, win, draw, loss: the streak of 2 was emitted and the state is reset
C23_Witness ==
    /\ pc = "loop"
    /\ idx = 5
    /\ IsTable(<<1, 2, 3, 4>>, <<player_name, player_name, "Draw", "Opponent">>)
    /\ streaks = <<One + One>>
    /\ current_streak = 0
    /\ streak_start_id = None
    /\ streak_details = <<>>
    /\ pending_draw = 0

(***************************************************************************)
(* C24. The returned details list is the concatenation, in emission order, *)
(* of the entries of the emitted streaks: every step of the scan either    *)
(* leaves both output lists alone or appends one length and, at the end of *)
(* the details, that streak's entries; the details have as many blocks as  *)
(* there are lengths; and no entry of a discarded run (a win followed by   *)
(* draws only, length 1) is in the output.                                 *)
(***************************************************************************)
\* rows i..j are a run that is closed with length 1: a win that opens a
\* streak, then draws only, then a loss, an id gap or the end of the input
DiscardedRun(i, j) ==
    /\ df[i].Winner = player_name
    /\ i = 1 \/ df[i - 1].ID # df[i].ID - 1 \/ df[i - 1].Winner = "Opponent"
    /\ \A k \in (i + 1)..j :
          df[k].Winner = "Draw" /\ df[k].ID = df[k - 1].ID + 1
    /\ j = Len(df) \/ df[j + 1].ID # df[j].ID + 1 \/ df[j + 1].Winner = "Opponent"

C24_DetailsAreEmittedBlocks ==
    /\ [][pc = "loop" =>
            \/ streaks' = streaks /\ details' = details
            \/ /\ current_streak > One
               /\ streak_details # <<>>
               /\ streaks' = Append(streaks, current_streak)
               /\ details' = details \o streak_details]_vars
    /\ [](Len(streaks) = Cardinality(BlockStarts(details)))
    /\ [](Returned =>
            /\ results[1] = <<streaks, details>>
            /\ \A i \in 1..Len(df) : \A j \in i..Len(df) :
                  DiscardedRun(i, j) =>
                     \A k \in i..j : \A p \in 1..Len(details) :
                        details[p].ID # df[k].ID)

\* win, draw, loss, win, win: the run 1..2 was discarded, the streak 4..5 is
\* the whole output
C24_Witness ==
    /\ Returned
    /\ IsTable(<<1, 2, 3, 4, 5>>,
               <<player_name, "Draw", "Opponent", player_name, player_name>>)
    /\ DiscardedRun(1, 2)
    /\ streaks = <<One + One>>
    /\ IdsOf(details) = <<4, 5>>

(***************************************************************************)
(* C25. For ascending unique ids, the ids of the returned details list are *)
(* strictly increasing, so no game id is in it more than once; the same    *)
(* holds of the entries of the open streak: the entry of a draw, appended  *)
(* at the draw, is not appended again by the win that follows it.          *)
(***************************************************************************)
StrictlyIncreasing(d) == \A i \in 1..(Len(d) - 1) : d[i].ID < d[i + 1].ID

C25_IdsStrictlyIncrease ==
    /\ StrictlyIncreasing(details)
    /\ StrictlyIncreasing(streak_details)
    /\ Cardinality({details[i].ID : i \in 1..Len(details)}) = Len(details)
    /\ \A r \in 1..Len(results) :
          /\ StrictlyIncreasing(results[r][2])
          /\ Cardinality({results[r][2][i].ID : i \in 1..Len(results[r][2])})
                = Len(results[r][2])

\* win, win, draw, win: the draw's id 3 is in the returned details once
C25_Witness ==
    /\ Returned
    /\ IsTable(<<1, 2, 3, 4>>, <<player_name, player_name, "Draw", player_name>>)
    /\ IdsOf(results[1][2]) = <<1, 2, 3, 4>>

(***************************************************************************)
(* C26. The length of an emitted streak is the number of wins among its    *)
(* games plus 0.5 for every maximal run of consecutive draws inside it     *)
(* that a win follows: k >= 2 draws between two wins add 0.5 in total, and *)
(* draws at the end of the streak add nothing. So a streak has at least as *)
(* many detail entries as its length, and as many iff it has no draw.      *)
(***************************************************************************)
\* the outcome of the game with the given id
WinnerOfId(id) == df[Min(Matches(df, id))].Winner

\* in the block p..q of the details: the wins, the draws, and the draws that
\* a win follows (one for each run of draws that a win follows)
WinsIn(d, p, q) ==
    Cardinality({k \in p..q : WinnerOfId(d[k].ID) = player_name})
DrawsIn(d, p, q) ==
    Cardinality({k \in p..q : WinnerOfId(d[k].ID) = "Draw"})
ConfirmedDrawRunsIn(d, p, q) ==
    Cardinality({k \in p..(q - 1) :
        /\ WinnerOfId(d[k].ID) = "Draw"
        /\ WinnerOfId(d[k + 1].ID) = player_name})

C26_LengthCountsWinsAndDrawRuns ==
    Returned =>
        /\ Len(streaks) = Cardinality(BlockStarts(details))
        /\ \A p \in BlockStarts(details) :
              LET q == BlockEnd(details, p)
                  len == streaks[BlockIndex(details, p)]
              IN  /\ len = WinsIn(details, p, q) * One
                             + ConfirmedDrawRunsIn(details, p, q) * Half
                  /\ (q - p + 1) * One >= len
                  /\ (q - p + 1) * One = len <=> DrawsIn(details, p, q) = 0

\* win, draw, draw, win, draw: 2 wins and one run of draws that a win
\* follows give 2.5, with five entries
C26_Witness ==
    /\ Returned
    /\ IsTable(<<1, 2, 3, 4, 5>>,
               <<player_name, "Draw", "Draw", player_name, "Draw">>)
    /\ streaks = <<One + One + Half>>
    /\ Len(details) = 5
    /\ ConfirmedDrawRunsIn(details, 1, 5) = 1

(***************************************************************************)
(* C27. Every emitted streak length is a multiple of 0.5 (a whole number   *)
(* of halves) and at least 2; 1.5 is never emitted. So every emitted       *)
(* length is a grid value of the frequency table, and the Fi counts sum to *)
(* the number of emitted streaks.                                          *)
(***************************************************************************)
RECURSIVE SumFi(_)
SumFi(t) == IF t = <<>> THEN 0 ELSE Head(t).Fi + SumFi(Tail(t))

C27_LengthsOnGrid ==
    /\ \A i \in 1..Len(streaks) :
          /\ streaks[i] \in Nat
          /\ streaks[i] >= GridStart
          /\ streaks[i] # One + Half
    /\ pc = "done" =>
          /\ \A i \in 1..Len(results[1][1]) :
                \E k \in 1..Len(frequencies_csv[1]) :
                    frequencies_csv[1][k].Xi = results[1][1][i]
          /\ SumFi(frequencies_csv[1]) = Len(results[1][1])

\* win, draw, win, then after an id gap win, win: lengths 2.5 and 2
C27_Witness ==
    /\ pc = "done"
    /\ IsTable(<<1, 2, 3, 5, 6>>,
               <<player_name, "Draw", player_name, player_name, player_name>>)
    /\ results[1][1] = <<One + One + Half, One + One>>
    /\ SumFi(frequencies_csv[1]) = 2

(***************************************************************************)
(* C28. After every processed record of an ascending unique-id input:      *)
(* streak_start_id is unset iff current_streak = 0 iff streak_details is   *)
(* empty; the pending draw weight is 0 or 0.5, and 0.5 only when a streak  *)
(* is open and the record just processed was a draw; when a streak is      *)
(* open, current_streak >= 1 and the ids of streak_details are             *)
(* streak_start_id .. last_id in order.                                    *)
(***************************************************************************)
C28_ScannerStateInvariant ==
    /\ (streak_start_id = None) <=> (current_streak = 0)
    /\ (current_streak = 0) <=> (streak_details = <<>>)
    /\ pending_draw \in {0, Half}
    /\ pending_draw = Half =>
          /\ streak_start_id # None
          /\ idx > 1
          /\ df[idx - 1].Winner = "Draw"
    /\ streak_start_id # None =>
          /\ current_streak >= One
          /\ last_id >= streak_start_id
          /\ IdsOf(streak_details) =
                [i \in 1..(last_id - streak_start_id + 1) |->
                    streak_start_id + i - 1]

\* loss, then win, win, draw at ids 2, 3, 4
C28_Witness ==
    /\ pc = "loop"
    /\ idx = 5
    /\ IsTable(<<1, 2, 3, 4>>, <<"Opponent", player_name, player_name, "Draw">>)
    /\ streak_start_id = 2
    /\ last_id = 4
    /\ current_streak = One + One
    /\ pending_draw = Half
    /\ IdsOf(streak_details) = <<2, 3, 4>>

(***************************************************************************)
(* C29. In process_files, when a player's scan emits no streak, the        *)
(* frequency step fails after that player's unordered, ordered and details *)
(* outputs have been written; no frequency table is written for that       *)
(* player, no later player is processed, and the outputs of the earlier    *)
(* players stay as written.                                                *)
(***************************************************************************)
\* every file written so far is left as it is by a step
KeepsWritten(f, g) == Len(g) >= Len(f) /\ SubSeq(g, 1, Len(f)) = f

C29_EmptyScanStopsTheLoop ==
    /\ [][(pc = "written" /\ results[Len(results)][1] = <<>>) =>
            /\ pc' = "ValueError"
            /\ UNCHANGED files]_vars
    /\ [](pc = "ValueError" =>
            LET k == Len(results)
            IN  /\ results[k][1] = <<>>
                /\ Len(unordered_csv) = k /\ unordered_csv[k] = <<>>
                /\ Len(ordered_csv) = k /\ ordered_csv[k] = <<>>
                /\ Len(details_csv) = k /\ details_csv[k] = results[k][2]
                /\ Len(frequencies_csv) = k - 1
                /\ \A j \in 1..(k - 1) :
                      /\ results[j][1] # <<>>
                      /\ unordered_csv[j] = results[j][1]
                      /\ details_csv[j] = results[j][2]
                      /\ ordered_csv[j] = SortValues(results[j][1])
                      /\ frequencies_csv[j] =
                            result_df(ordered_csv[j],
                                      xi_values(Max(Values(ordered_csv[j])))))
    /\ [][pc # "ValueError"]_vars
    /\ [][/\ KeepsWritten(unordered_csv, unordered_csv')
          /\ KeepsWritten(details_csv, details_csv')
          /\ KeepsWritten(ordered_csv, ordered_csv')
          /\ KeepsWritten(frequencies_csv, frequencies_csv')]_vars

\* the first player's scan emitted a streak of 2, the second player's none:
\* the loop stopped before the third player
C29_Witness ==
    /\ pc = "ValueError"
    /\ Len(results) = 2
    /\ results[1][1] = <<One + One>>
    /\ results[2][1] = <<>>
    /\ unordered_csv = <<(<<One + One>>), (<<>>)>>
    /\ Len(details_csv) = 2
    /\ Len(frequencies_csv) = 1

(***************************************************************************)
(* C30. When main of the accuracy script is run again over the same game   *)
(* file, with the accuracy file and the checkpoint left by the earlier     *)
(* runs, a game is skipped iff its accuracies were already saved: no game  *)
(* is analysed and appended twice, and no game that was never saved is     *)
(* skipped, whatever the number of digits of its ID and of the             *)
(* checkpointed ID.                                                        *)
(***************************************************************************)
AlreadySaved(id) ==
    \E i \in 1..Len(output_accuracy_csv) : output_accuracy_csv[i] = id

\* a step that skips the game it has read
SkipsGame ==
    AtGame /\ game_index' = game_index + 1
           /\ output_accuracy_csv' = output_accuracy_csv

C30_SkippedIffSaved ==
    /\ [][AtGame /\ game_index' = game_index + 1 =>
            (SkipsGame <=> AlreadySaved(game_id(game_index + 1)))]_vars
    /\ [](\A i \in 1..Len(output_accuracy_csv) :
            \A j \in 1..Len(output_accuracy_csv) :
                output_accuracy_csv[i] = output_accuracy_csv[j] => i = j)
=============================================================================
